---- MODULE Spec2Model ----
\* Model of Server.value (server/value.go): decoding the value of a DWARF type
\* at an address of the traced program, one memory read at a time.
EXTENDS Integers, Sequences, FiniteSets

\* t, addr: the arguments of the running call of value; t0: the type the caller
\* passed; pc: where the call stands; loc: its local variables; ret: what it
\* returned; log: the reads it issued of the memory port, in order; mem: the
\* memory of the traced program; live: whether that program is running; hist:
\* the memories a running program went through; calls: invocations of value.
VARIABLES t, t0, addr, pc, loc, log, ret, mem, live, hist, calls

vars == <<t, t0, addr, pc, loc, log, ret, mem, live, hist, calls>>

----------------------------------------------------------------------------
\* Bounds of the model.

\* Memory has the words 0 .. MemWords, each PointerSize bytes wide.
MemWords == 4
\* Memory words hold 0, PointerSize, .., MaxVal * PointerSize, or BigLen.
MaxVal == 1
\* A declared length far beyond the string preview cap.
BigLen == 1000
\* value is called at the word addresses 0 .. MaxAddr (and at one unmapped address).
MaxAddr == 1
\* Typedefs are nested at most this deep.
MaxTypedef == 1
\* The traced program writes memory at most this often during one call.
MaxWrites == 2

----------------------------------------------------------------------------
\* The architecture and the memory of the traced program.

\* s.arch.PointerSize
PointerSize == 8

\* const maxStringSize = 256
maxStringSize == 256

Addrs == {PointerSize * i : i \in 0..MemWords}
Unmapped == PointerSize * (MemWords + 1)
Vals == {PointerSize * i : i \in 0..MaxVal} \cup {BigLen}
\* A word of memory nobody has read yet: its content is fixed by the first read.
Unread == 0 - 1

NilVal == [kind |-> "nil"]
NoErr == "nil"

\* The outcomes of one read of the memory port at address a: it may always
\* fail (the program exited); it succeeds only at a mapped address, with the
\* word the memory holds there.
peek(a) ==
  {[ok |-> FALSE, v |-> 0]} \cup
  IF a \in Addrs
    THEN {[ok |-> TRUE, v |-> x] : x \in (IF mem[a] = Unread THEN Vals ELSE {mem[a]})}
    ELSE {}

\* The memory as known after read r of address a.
Observe(a, r) == IF r.ok THEN [mem EXCEPT ![a] = r.v] ELSE mem

\* The read log after read r of n bytes at address a for `field`.
Logged(field, a, n, r) ==
  Append(log, [field |-> field, at |-> a, n |-> n, ok |-> r.ok, v |-> r.v,
               epoch |-> Len(hist)])

----------------------------------------------------------------------------
\* Type descriptors (package dwarf), with the fields value() looks at.

Basic(k, bs) == [kind |-> k, ByteSize |-> bs, Offset |-> bs + 1]

FieldOf(name, ty, off) == [Name |-> name, Type |-> ty, ByteOffset |-> off]

PtrTo(ty, bs) == [kind |-> "PtrType", ByteSize |-> bs, Offset |-> 40, Type |-> ty]

StructOf(fields) == [kind |-> "StructType", ByteSize |-> PointerSize * Len(fields),
                     Offset |-> 50 + Len(fields), Field |-> fields]

VoidPtr == PtrTo(Basic("UintType", 1), PointerSize)
Int64 == Basic("IntType", 8)
Uint64 == Basic("UintType", 8)

BasicSizes == {1, 2, 3, 4, 8, 16}

BasicTypes ==
  {Basic(k, bs) : k \in {"IntType", "UintType", "BoolType", "FloatType", "ComplexType"},
                  bs \in BasicSizes}
  \cup {Basic("CharType", 1), Basic("UcharType", 1), Basic("AddrType", 8),
        Basic("AddrType", 16)}

PtrTypes == {PtrTo(Int64, PointerSize), PtrTo(Int64, 4)}

\* Slice headers: the runtime's layout, one with int fields declared unsigned,
\* one without "cap", one whose "len" is a pointer.
SliceHeaders ==
  { <<FieldOf("array", VoidPtr, 0), FieldOf("len", Int64, 8), FieldOf("cap", Int64, 16)>>,
    <<FieldOf("array", VoidPtr, 0), FieldOf("len", Uint64, 8), FieldOf("cap", Uint64, 16)>>,
    <<FieldOf("array", VoidPtr, 0), FieldOf("len", Int64, 8)>>,
    <<FieldOf("array", VoidPtr, 0), FieldOf("len", VoidPtr, 8), FieldOf("cap", Int64, 16)>> }

SliceOf(elem, fields) ==
  [kind |-> "SliceType", ByteSize |-> 24, Offset |-> 60, ElemType |-> elem,
   StructType |-> StructOf(fields)]

SliceTypes == {SliceOf(e, f) : e \in {Int64, Basic("IntType", 4)}, f \in SliceHeaders}

ArrayTypes ==
  {[kind |-> "ArrayType", ByteSize |-> 16, Offset |-> 70, Type |-> Int64,
    Count |-> c, StrideBitSize |-> s] : c \in {0, 2}, s \in {64, 12}}

StructFieldLists ==
  { <<>>,
    <<FieldOf("a", Basic("IntType", 4), 0), FieldOf("b", Int64, 8)>>,
    <<FieldOf("p", VoidPtr, 0), FieldOf("n", Uint64, 8), FieldOf("ok", Basic("BoolType", 1), 16)>> }

StructTypes == {StructOf(f) : f \in StructFieldLists}

StringHeaders ==
  { <<FieldOf("str", VoidPtr, 0), FieldOf("len", Int64, 8)>>,
    <<FieldOf("str", VoidPtr, 0)>>,
    <<FieldOf("str", Int64, 0), FieldOf("len", Int64, 8)>> }

StringTypes ==
  {[kind |-> "StringType", ByteSize |-> 16, Offset |-> 80, StructType |-> StructOf(f)] :
     f \in StringHeaders}

\* The runtime's channel header (hchan), and two headers it is not.
ChanHeaders ==
  { <<FieldOf("qcount", Uint64, 0), FieldOf("dataqsiz", Uint64, 8),
      FieldOf("buf", VoidPtr, 16), FieldOf("recvx", Uint64, 24)>>,
    <<FieldOf("qcount", Uint64, 0), FieldOf("dataqsiz", Uint64, 8),
      FieldOf("buf", VoidPtr, 16)>> }

ChanOf(elem, under) ==
  [kind |-> "ChanType", ByteSize |-> PointerSize, Offset |-> 90, ElemType |-> elem,
   TypedefType |-> [kind |-> "TypedefType", ByteSize |-> PointerSize, Offset |-> 91,
                    Type |-> under]]

ChanTypes ==
  {ChanOf(e, PtrTo(StructOf(f), PointerSize)) :
     e \in {Int64, Basic("IntType", 4), StructOf(<<>>)}, f \in ChanHeaders}
  \cup {ChanOf(Int64, Int64), ChanOf(Int64, PtrTo(Int64, PointerSize))}

\* The runtime's map header (hmap) behind the map's pointer.
MapHeaders ==
  { <<FieldOf("count", Int64, 0), FieldOf("buckets", VoidPtr, 8)>>,
    <<FieldOf("buckets", VoidPtr, 8)>> }

MapTypes ==
  {[kind |-> "MapType", ByteSize |-> PointerSize, Offset |-> 100,
    TypedefType |-> [kind |-> "TypedefType", ByteSize |-> PointerSize, Offset |-> 101,
                     Type |-> PtrTo(StructOf(f), PointerSize)]] : f \in MapHeaders}

OtherTypes ==
  {[kind |-> "FuncType", ByteSize |-> PointerSize, Offset |-> 110],
   [kind |-> "InterfaceType", ByteSize |-> 16, Offset |-> 111],
   [kind |-> "EnumType", ByteSize |-> 4, Offset |-> 112]}

BaseTypes ==
  BasicTypes \cup PtrTypes \cup SliceTypes \cup ArrayTypes \cup StructTypes
  \cup StringTypes \cup ChanTypes \cup MapTypes \cup OtherTypes

TypedefOf(ty) == [kind |-> "TypedefType", ByteSize |-> ty.ByteSize, Offset |-> 120, Type |-> ty]

RECURSIVE Wrapped(_)
Wrapped(n) == IF n = 0 THEN BaseTypes
              ELSE Wrapped(n - 1) \cup {TypedefOf(ty) : ty \in Wrapped(n - 1)}

Types == Wrapped(MaxTypedef)

RECURSIVE TypedefDepth(_)
TypedefDepth(ty) == IF ty.kind = "TypedefType" THEN 1 + TypedefDepth(ty.Type) ELSE 0

AddrInputs == {PointerSize * i : i \in 0..MaxAddr} \cup {Unmapped}

NoLoc == [a |-> 0, ptr |-> 0, length |-> 0, capacity |-> 0, buf |-> 0, qcount |-> 0]

Init ==
  /\ t \in Types
  /\ t0 = t
  /\ addr \in AddrInputs
  /\ pc = "value"
  /\ loc = NoLoc
  /\ log = <<>>
  /\ ret = [val |-> NilVal, err |-> NoErr]
  /\ mem = [a \in Addrs |-> Unread]
  /\ live = FALSE
  /\ hist = <<>>
  /\ calls = 1

----------------------------------------------------------------------------
\* Architecture decoder (s.arch). A read of n bytes at a word yields the low
\* n bytes of the word (little-endian); every word of Vals is below 2^16.

Bytes(v, n) == IF n = 1 THEN v % 256 ELSE v

\* s.arch.IntN: two's complement value of the n-byte buffer.
IntN(v, n) == IF n = 1 /\ Bytes(v, n) >= 128 THEN Bytes(v, n) - 256 ELSE Bytes(v, n)

\* s.arch.UintN
UintN(v, n) == Bytes(v, n)

----------------------------------------------------------------------------
\* Field accessor (peekPtrStructField, peekUintOrIntStructField).

RECURSIVE getFieldFrom(_, _, _)
getFieldFrom(fields, name, i) ==
  IF i > Len(fields) THEN 0
  ELSE IF fields[i].Name = name THEN i
  ELSE getFieldFrom(fields, name, i + 1)

\* Index of the first field called name, 0 when there is none.
getField(st, name) == getFieldFrom(st.Field, name, 1)

\* Where the named field is read, or why it cannot be.
FieldPlan(st, base, name, kinds) ==
  LET i == getField(st, name) IN
  IF i = 0 THEN [err |-> "FieldNotFound", at |-> 0, n |-> 0]
  ELSE IF st.Field[i].Type.kind \notin kinds
    THEN [err |-> "UnsupportedFieldType", at |-> 0, n |-> 0]
  ELSE [err |-> NoErr, at |-> base + st.Field[i].ByteOffset, n |-> st.Field[i].Type.ByteSize]

peekPtrStructField(st, base, name) == FieldPlan(st, base, name, {"PtrType", "AddrType"})

peekUintOrIntStructField(st, base, name) == FieldPlan(st, base, name, {"UintType", "IntType"})

----------------------------------------------------------------------------
\* Results of value().

Ret(v) == [val |-> v, err |-> NoErr]
Fail(e) == [val |-> NilVal, err |-> e]

\* readBasic's check of the size n.
readBasicOK(n) == n \in {1, 2, 4, 8, 16}

IntResult(bs, v) ==
  IF bs \in {1, 2, 4, 8}
    THEN Ret([kind |-> "int", bits |-> 8 * bs, x |-> IntN(v, bs)])
    ELSE Fail("InvalidSize")

UintResult(bs, v) ==
  IF bs \in {1, 2, 4, 8}
    THEN Ret([kind |-> "uint", bits |-> 8 * bs, x |-> UintN(v, bs)])
    ELSE Fail("InvalidSize")

BoolResult(bs, v) == Ret([kind |-> "bool", x |-> (Bytes(v, bs) # 0)])

FloatResult(bs, v) ==
  IF bs \in {4, 8}
    THEN Ret([kind |-> "float", bits |-> 8 * bs, x |-> Bytes(v, bs)])
    ELSE Fail("InvalidSize")

ComplexResult(bs, v) ==
  IF bs \in {8, 16}
    THEN Ret([kind |-> "complex", bits |-> 8 * bs, x |-> Bytes(v, bs)])
    ELSE Fail("InvalidSize")

PointerResult(ty, v) == Ret([kind |-> "Pointer", TypeID |-> ty.Type.Offset, Address |-> v])

SliceResult_Unchecked(ty, ptr, length, capacity) ==
  Ret([kind |-> "Slice",
       Array |-> [ElementTypeID |-> ty.ElemType.Offset, Address |-> ptr,
                  Length |-> length, StrideBits |-> ty.ElemType.ByteSize * 8],
       capacity |-> capacity])

SliceResult_Partial(ty, ptr, length, capacity) ==
  IF capacity < length
    THEN [val |-> SliceResult_Unchecked(ty, ptr, length, capacity).val,
          err |-> "InconsistentSlice"]
    ELSE SliceResult_Unchecked(ty, ptr, length, capacity)

SliceResult(ty, ptr, length, capacity) ==
  IF capacity < length THEN Fail("InconsistentSlice")
  ELSE Ret([kind |-> "Slice",
            Array |-> [ElementTypeID |-> ty.ElemType.Offset, Address |-> ptr,
                       Length |-> length, StrideBits |-> ty.ElemType.ByteSize * 8],
            capacity |-> capacity])

ArrayResult(ty, a) ==
  IF ty.StrideBitSize % 8 # 0 THEN Fail("Alignment")
  ELSE Ret([kind |-> "Array", ElementTypeID |-> ty.Type.Offset, Address |-> a,
            Length |-> ty.Count, StrideBits |-> ty.StrideBitSize])

StructResult_NoOffset(ty, a) ==
  Ret([kind |-> "Struct",
       fields |-> [i \in 1..Len(ty.Field) |->
                     [Name |-> ty.Field[i].Name,
                      Var |-> [TypeID |-> ty.Field[i].Type.Offset, Address |-> a]]]])

StructResult(ty, a) ==
  Ret([kind |-> "Struct",
       fields |-> [i \in 1..Len(ty.Field) |->
                     [Name |-> ty.Field[i].Name,
                      Var |-> [TypeID |-> ty.Field[i].Type.Offset,
                               Address |-> a + ty.Field[i].ByteOffset]]]])

MapResult(ty, a, length) ==
  Ret([kind |-> "Map", TypeID |-> ty.Offset, Address |-> a, Length |-> length])

\* Bytes of string contents to read for a declared length.
StringN_Uncapped(length) == length

StringN(length) == IF length > maxStringSize THEN maxStringSize ELSE length

\* The preview is the n bytes read at ptr.
StringResult(length, ptr, n) ==
  Ret([kind |-> "String", Length |-> length, String |-> [from |-> ptr, bytes |-> n]])

NilChannel_Capacity(ty) ==
  [kind |-> "Channel", ElementTypeID |-> ty.ElemType.Offset, Address |-> 0, Buffer |-> 0,
   Length |-> 0, Capacity |-> ty.ElemType.ByteSize, Stride |-> ty.ElemType.ByteSize,
   BufferStart |-> 0]

NilChannel(ty) ==
  [kind |-> "Channel", ElementTypeID |-> ty.ElemType.Offset, Address |-> 0, Buffer |-> 0,
   Length |-> 0, Capacity |-> 0, Stride |-> ty.ElemType.ByteSize, BufferStart |-> 0]

ChannelResult(ty, a, buf, qcount, capacity, recvx) ==
  Ret([kind |-> "Channel", ElementTypeID |-> ty.ElemType.Offset, Address |-> a,
       Buffer |-> buf, Length |-> qcount, Capacity |-> capacity,
       Stride |-> ty.ElemType.ByteSize, BufferStart |-> recvx])

\* Where value() goes after reading the channel's header pointer a.
ChanAfterPtr_Always(a) == "chan_buf"

ChanAfterPtr(a) == IF a = 0 THEN "done" ELSE "chan_buf"

FuncResult(a) == Ret([kind |-> "Func", Address |-> a])

----------------------------------------------------------------------------
\* Steps of value().

Frame == UNCHANGED <<t, t0, addr, live, hist, calls>>

\* Return r without reading.
Return(r) == /\ pc' = "done" /\ ret' = r /\ UNCHANGED <<loc, log, mem>> /\ Frame

\* Read r of n bytes at a is the call's last: it returns result, or the read's failure.
LastRead(a, field, n, r, result) ==
  /\ log' = Logged(field, a, n, r)
  /\ mem' = Observe(a, r)
  /\ pc' = "done"
  /\ loc' = loc
  /\ ret' = IF r.ok THEN result ELSE Fail("ReadFailure")
  /\ Frame

\* A header field read that ignores the read's failure.
ReadStep_IgnoreErr(plan, field, local, next) ==
  IF plan.err # NoErr THEN Return(Fail(plan.err))
  ELSE \E r \in peek(plan.at) :
         /\ log' = Logged(field, plan.at, plan.n, r)
         /\ mem' = Observe(plan.at, r)
         /\ pc' = next /\ loc' = [loc EXCEPT ![local] = r.v] /\ ret' = ret
         /\ Frame

\* A header field read that is not the call's last: the field accessor's
\* error or the read's failure is returned, else the value is kept in a local.
ReadStep(plan, field, local, next) ==
  IF plan.err # NoErr THEN Return(Fail(plan.err))
  ELSE \E r \in peek(plan.at) :
         /\ log' = Logged(field, plan.at, plan.n, r)
         /\ mem' = Observe(plan.at, r)
         /\ IF r.ok
              THEN pc' = next /\ loc' = [loc EXCEPT ![local] = r.v] /\ ret' = ret
              ELSE pc' = "done" /\ loc' = loc /\ ret' = Fail("ReadFailure")
         /\ Frame

\* case *dwarf.CharType, *dwarf.IntType
ValueInt ==
  /\ pc = "value" /\ t.kind \in {"CharType", "IntType"}
  /\ IF ~readBasicOK(t.ByteSize) THEN Return(Fail("InvalidSize"))
     ELSE \E r \in peek(addr) :
            LastRead(addr, "int", t.ByteSize, r, IntResult(t.ByteSize, r.v))

\* case *dwarf.UcharType, *dwarf.UintType, *dwarf.AddrType
ValueUint ==
  /\ pc = "value" /\ t.kind \in {"UcharType", "UintType", "AddrType"}
  /\ IF ~readBasicOK(t.ByteSize) THEN Return(Fail("InvalidSize"))
     ELSE \E r \in peek(addr) :
            LastRead(addr, "uint", t.ByteSize, r, UintResult(t.ByteSize, r.v))

\* case *dwarf.BoolType
ValueBool ==
  /\ pc = "value" /\ t.kind = "BoolType"
  /\ IF ~readBasicOK(t.ByteSize) THEN Return(Fail("InvalidSize"))
     ELSE \E r \in peek(addr) :
            LastRead(addr, "bool", t.ByteSize, r, BoolResult(t.ByteSize, r.v))

\* case *dwarf.FloatType
ValueFloat ==
  /\ pc = "value" /\ t.kind = "FloatType"
  /\ IF ~readBasicOK(t.ByteSize) THEN Return(Fail("InvalidSize"))
     ELSE \E r \in peek(addr) :
            LastRead(addr, "float", t.ByteSize, r, FloatResult(t.ByteSize, r.v))

\* case *dwarf.ComplexType
ValueComplex ==
  /\ pc = "value" /\ t.kind = "ComplexType"
  /\ IF ~readBasicOK(t.ByteSize) THEN Return(Fail("InvalidSize"))
     ELSE \E r \in peek(addr) :
            LastRead(addr, "complex", t.ByteSize, r, ComplexResult(t.ByteSize, r.v))

\* A pointer case that goes on to read the pointee.
ValuePtr_Deref ==
  /\ pc = "value" /\ t.kind = "PtrType"
  /\ IF t.ByteSize # PointerSize \/ ~readBasicOK(t.ByteSize) THEN Return(Fail("InvalidSize"))
     ELSE \E r \in peek(addr) :
            /\ log' = Logged("pointer", addr, t.ByteSize, r)
            /\ mem' = Observe(addr, r)
            /\ IF r.ok
                 THEN /\ pc' = "value" /\ t' = t.Type /\ addr' = r.v /\ calls' = calls + 1
                      /\ UNCHANGED <<loc, ret>>
                 ELSE /\ pc' = "done" /\ ret' = Fail("ReadFailure")
                      /\ UNCHANGED <<loc, t, addr, calls>>
            /\ UNCHANGED <<t0, live, hist>>

\* case *dwarf.PtrType
ValuePtr ==
  /\ pc = "value" /\ t.kind = "PtrType"
  /\ IF t.ByteSize # PointerSize \/ ~readBasicOK(t.ByteSize) THEN Return(Fail("InvalidSize"))
     ELSE \E r \in peek(addr) :
            LastRead(addr, "pointer", t.ByteSize, r, PointerResult(t, r.v))

\* case *dwarf.SliceType: the read of "array"
ValueSlice ==
  /\ pc = "value" /\ t.kind = "SliceType"
  /\ ReadStep(peekPtrStructField(t.StructType, addr, "array"), "array", "ptr", "slice_len")

\* A read of the slice's length that reads the "cap" field.
SliceLen_ReadsCap ==
  /\ pc = "slice_len"
  /\ ReadStep(peekUintOrIntStructField(t.StructType, addr, "cap"), "len", "length", "slice_cap")

\* case *dwarf.SliceType: the read of "len"
SliceLen ==
  /\ pc = "slice_len"
  /\ ReadStep(peekUintOrIntStructField(t.StructType, addr, "len"), "len", "length", "slice_cap")

\* case *dwarf.SliceType: the read of "cap", the check and the result
SliceCap ==
  /\ pc = "slice_cap"
  /\ LET plan == peekUintOrIntStructField(t.StructType, addr, "cap") IN
     IF plan.err # NoErr THEN Return(Fail(plan.err))
     ELSE \E r \in peek(plan.at) :
            LastRead(plan.at, "cap", plan.n, r, SliceResult(t, loc.ptr, loc.length, r.v))

\* case *dwarf.ArrayType
ValueArray ==
  /\ pc = "value" /\ t.kind = "ArrayType"
  /\ Return(ArrayResult(t, addr))

\* case *dwarf.StructType
ValueStruct ==
  /\ pc = "value" /\ t.kind = "StructType"
  /\ Return(StructResult(t, addr))

\* case *dwarf.TypedefType: value calls itself on the aliased type
ValueTypedef ==
  /\ pc = "value" /\ t.kind = "TypedefType"
  /\ t' = t.Type
  /\ calls' = calls + 1
  /\ UNCHANGED <<t0, addr, pc, loc, log, ret, mem, live, hist>>

\* case *dwarf.MapType: peekMapLength reads the map's header pointer
ValueMap ==
  /\ pc = "value" /\ t.kind = "MapType"
  /\ \E r \in peek(addr) :
       /\ log' = Logged("map", addr, PointerSize, r)
       /\ mem' = Observe(addr, r)
       /\ IF ~r.ok THEN pc' = "done" /\ loc' = loc /\ ret' = Fail("ReadFailure")
          ELSE IF r.v = 0 THEN pc' = "done" /\ loc' = loc /\ ret' = MapResult(t, addr, 0)
          ELSE pc' = "map_count" /\ loc' = [loc EXCEPT !.a = r.v] /\ ret' = ret
       /\ Frame

\* case *dwarf.MapType: peekMapLength reads the header's "count"
MapCount ==
  /\ pc = "map_count"
  /\ LET plan == peekUintOrIntStructField(t.TypedefType.Type.Type, loc.a, "count") IN
     IF plan.err # NoErr THEN Return(Fail(plan.err))
     ELSE \E r \in peek(plan.at) :
            LastRead(plan.at, "count", plan.n, r, MapResult(t, addr, r.v))

\* case *dwarf.StringType: the read of "str"
ValueString ==
  /\ pc = "value" /\ t.kind = "StringType"
  /\ ReadStep(peekPtrStructField(t.StructType, addr, "str"), "str", "ptr", "string_len")

\* case *dwarf.StringType: the read of "len"
StringLen ==
  /\ pc = "string_len"
  /\ ReadStep(peekUintOrIntStructField(t.StructType, addr, "len"), "len", "length",
              "string_bytes")

\* case *dwarf.StringType: the read of the contents and the result
StringBytes ==
  /\ pc = "string_bytes"
  /\ \E r \in peek(loc.ptr) :
       LastRead(loc.ptr, "contents", StringN(loc.length), r,
                StringResult(loc.length, loc.ptr, StringN(loc.length)))

\* case *dwarf.ChanType: the checks of the type and the read of the header pointer
ValueChan ==
  /\ pc = "value" /\ t.kind = "ChanType"
  /\ IF t.TypedefType.Type.kind # "PtrType" THEN Return(Fail("NotPointer"))
     ELSE IF t.TypedefType.Type.Type.kind # "StructType" THEN Return(Fail("NotPointerToStruct"))
     ELSE \E r \in peek(addr) :
            /\ log' = Logged("chan", addr, PointerSize, r)
            /\ mem' = Observe(addr, r)
            /\ IF ~r.ok THEN pc' = "done" /\ loc' = loc /\ ret' = Fail("ReadFailure")
               ELSE IF ChanAfterPtr(r.v) = "done"
                 THEN pc' = "done" /\ loc' = loc /\ ret' = Ret(NilChannel(t))
               ELSE pc' = ChanAfterPtr(r.v) /\ loc' = [loc EXCEPT !.a = r.v] /\ ret' = ret
            /\ Frame

\* The header struct of channel type ty.
hchan(ty) == ty.TypedefType.Type.Type

\* case *dwarf.ChanType: the read of "buf"
ChanBuf ==
  /\ pc = "chan_buf"
  /\ ReadStep(peekPtrStructField(hchan(t), loc.a, "buf"), "buf", "buf", "chan_qcount")

\* case *dwarf.ChanType: the read of "qcount"
ChanQcount ==
  /\ pc = "chan_qcount"
  /\ ReadStep(peekUintOrIntStructField(hchan(t), loc.a, "qcount"), "qcount", "qcount",
              "chan_dataqsiz")

\* case *dwarf.ChanType: the read of "dataqsiz"
ChanDataqsiz ==
  /\ pc = "chan_dataqsiz"
  /\ ReadStep(peekUintOrIntStructField(hchan(t), loc.a, "dataqsiz"), "dataqsiz", "capacity",
              "chan_recvx")

\* case *dwarf.ChanType: the read of "recvx" and the result
ChanRecvx ==
  /\ pc = "chan_recvx"
  /\ LET plan == peekUintOrIntStructField(hchan(t), loc.a, "recvx") IN
     IF plan.err # NoErr THEN Return(Fail(plan.err))
     ELSE \E r \in peek(plan.at) :
            LastRead(plan.at, "recvx", plan.n, r,
                     ChannelResult(t, loc.a, loc.buf, loc.qcount, loc.capacity, r.v))

\* case *dwarf.FuncType
ValueFunc ==
  /\ pc = "value" /\ t.kind = "FuncType"
  /\ \E r \in peek(addr) : LastRead(addr, "func", PointerSize, r, FuncResult(r.v))

\* case *dwarf.InterfaceType
ValueInterface ==
  /\ pc = "value" /\ t.kind = "InterfaceType"
  /\ Return(Ret([kind |-> "Interface"]))

SupportedKinds ==
  {"CharType", "IntType", "UcharType", "UintType", "AddrType", "BoolType", "FloatType",
   "ComplexType", "PtrType", "SliceType", "ArrayType", "StructType", "TypedefType",
   "MapType", "StringType", "ChanType", "FuncType", "InterfaceType"}

\* No case of the type switch matches.
ValueUnsupported ==
  /\ pc = "value" /\ t.kind \notin SupportedKinds
  /\ Return(Fail("UnsupportedType"))

\* The words a running program holds in the model: a nil and a non-nil one.
LiveVals == {0, PointerSize}

\* The mapped words of the header the running call decodes: the slice header
\* at addr, or the channel's pointer at addr and the channel header behind it.
HeaderWords ==
  Addrs \cap
    IF t.kind = "SliceType"
      THEN {addr + t.StructType.Field[i].ByteOffset : i \in 1..Len(t.StructType.Field)}
      ELSE {addr} \cup {loc.a + hchan(t).Field[i].ByteOffset : i \in 1..Len(hchan(t).Field)}

\* The running traced program writes one word of that header between two reads
\* of the call (what it wrote before the first read is in the initial memory).
TargetMutate ==
  /\ live /\ pc \notin {"value", "done"} /\ Len(hist) <= MaxWrites
  /\ \E a \in HeaderWords, v \in LiveVals :
       /\ v # mem[a]
       /\ mem' = [mem EXCEPT ![a] = v]
       /\ hist' = Append(hist, mem')
  /\ UNCHANGED <<t, t0, addr, pc, loc, log, ret, live, calls>>

Next ==
  \/ ValueInt \/ ValueUint \/ ValueBool \/ ValueFloat \/ ValueComplex \/ ValuePtr
  \/ ValueSlice \/ SliceLen \/ SliceCap \/ ValueArray \/ ValueStruct \/ ValueTypedef
  \/ ValueMap \/ MapCount \/ ValueString \/ StringLen \/ StringBytes
  \/ ValueChan \/ ChanBuf \/ ChanQcount \/ ChanDataqsiz \/ ChanRecvx
  \/ ValueFunc \/ ValueInterface \/ ValueUnsupported

\* value() called on a stopped program.
Spec == Init /\ [][Next]_vars

\* The types decoded from several header reads, with the runtime's layouts.
LiveTypes ==
  {ty \in SliceTypes \cup ChanTypes :
     /\ ty.ElemType = Int64
     /\ ty.kind = "SliceType" =>
          /\ getField(ty.StructType, "cap") # 0
          /\ ty.StructType.Field[2].Type = Int64
     /\ ty.kind = "ChanType" =>
          /\ ty.TypedefType.Type.kind = "PtrType"
          /\ ty.TypedefType.Type.Type.kind = "StructType"
          /\ getField(hchan(ty), "recvx") # 0}

InitLive ==
  /\ t \in LiveTypes
  /\ t0 = t
  /\ addr \in AddrInputs
  /\ pc = "value"
  /\ loc = NoLoc
  /\ log = <<>>
  /\ ret = [val |-> NilVal, err |-> NoErr]
  /\ mem \in [Addrs -> LiveVals]
  /\ live = TRUE
  /\ hist = <<mem>>
  /\ calls = 1

NextLive ==
  \/ TargetMutate
  \/ ValueSlice \/ SliceLen \/ SliceCap
  \/ ValueChan \/ ChanBuf \/ ChanQcount \/ ChanDataqsiz \/ ChanRecvx

\* value() called on a running program.
SpecLive == InitLive /\ [][NextLive]_vars

----------------------------------------------------------------------------
\* Properties.

Done == pc = "done"
AllOk == \A i \in 1..Len(log) : log[i].ok
FieldAddr(st, base, name) == base + st.Field[getField(st, name)].ByteOffset
Min(x, y) == IF x < y THEN x ELSE y
IntegerLike == {"CharType", "IntType", "UcharType", "UintType", "AddrType", "BoolType"}

\* C1: a finished call of value returned either a Value and no error, or no
\* Value and an error; never both, never neither.
C1_ValueXorError ==
  Done => \/ ret.val # NilVal /\ ret.err = NoErr
          \/ ret.val = NilVal /\ ret.err # NoErr

\* A slice decode that read all three header fields and failed on cap < len.
C1_Witness ==
  Done /\ t.kind = "SliceType" /\ Len(log) = 3 /\ AllOk /\ ret.err = "InconsistentSlice"

\* C2: a slice decode reads "array", "len" and "cap" of the header at addr; with
\* cap < len it fails with InconsistentSlice, otherwise it returns the Slice of
\* the values read, with StrideBits = element byte size * 8. Every Slice
\* returned has capacity >= Array.Length.
C2_SliceCapLen ==
  /\ ret.val.kind = "Slice" => ret.val.capacity >= ret.val.Array.Length
  /\ (Done /\ t.kind = "SliceType" /\ Len(log) = 3 /\ AllOk) =>
       /\ log[1].at = FieldAddr(t.StructType, addr, "array")
       /\ log[2].at = FieldAddr(t.StructType, addr, "len")
       /\ log[3].at = FieldAddr(t.StructType, addr, "cap")
       /\ IF log[3].v < log[2].v
            THEN ret.val = NilVal /\ ret.err = "InconsistentSlice"
            ELSE /\ ret.err = NoErr
                 /\ ret.val.kind = "Slice"
                 /\ ret.val.Array.Address = log[1].v
                 /\ ret.val.Array.Length = log[2].v
                 /\ ret.val.capacity = log[3].v
                 /\ ret.val.Array.StrideBits = t.ElemType.ByteSize * 8
                 /\ ret.val.Array.ElementTypeID = t.ElemType.Offset

\* A slice header read with len = BigLen and a smaller cap.
C2_Witness ==
  /\ Done /\ t.kind = "SliceType" /\ Len(log) = 3 /\ AllOk
  /\ log[2].v = BigLen /\ log[3].v < BigLen

\* C3: a channel decode whose header pointer reads as zero succeeds and has
\* issued that one read only.
C3_NilChannelOneRead ==
  (t.kind = "ChanType" /\ Len(log) >= 1 /\ log[1].ok /\ log[1].v = 0) =>
    /\ Done
    /\ Len(log) = 1
    /\ ret.err = NoErr
    /\ ret.val.kind = "Channel"

\* A nil channel decoded at a mapped address, through a typedef.
C3_Witness ==
  /\ Done /\ t.kind = "ChanType" /\ t0.kind = "TypedefType"
  /\ Len(log) = 1 /\ log[1].ok /\ log[1].v = 0 /\ log[1].at = addr

NilChannelDecoded ==
  Done /\ t.kind = "ChanType" /\ Len(log) = 1 /\ log[1].ok /\ log[1].v = 0

\* C4 as stated: every numeric field of the Channel returned for a nil channel
\* is 0, the stride included.
C4_AllFieldsZero ==
  NilChannelDecoded =>
    /\ ret.val.Address = 0 /\ ret.val.Buffer = 0 /\ ret.val.Length = 0
    /\ ret.val.Capacity = 0 /\ ret.val.BufferStart = 0 /\ ret.val.Stride = 0

\* C4 as amended: the Channel returned for a nil channel has header address,
\* buffer address, length, capacity and buffer read offset 0; its stride is the
\* element type's byte size and its element type id the element type's.
C4_NilChannelFields ==
  NilChannelDecoded =>
    /\ ret.val.Address = 0 /\ ret.val.Buffer = 0 /\ ret.val.Length = 0
    /\ ret.val.Capacity = 0 /\ ret.val.BufferStart = 0
    /\ ret.val.Stride = t.ElemType.ByteSize
    /\ ret.val.ElementTypeID = t.ElemType.Offset

\* A nil channel of 8-byte elements.
C4_Witness == NilChannelDecoded /\ t.ElemType.ByteSize = 8 /\ ret.val.Stride = 8

\* C5: a string decode whose reads succeed returns the declared length L and
\* a preview of min(L, maxStringSize) bytes read at the "str" pointer; no read
\* of contents asks for more than maxStringSize bytes.
C5_StringPreview ==
  /\ \A i \in 1..Len(log) : log[i].field = "contents" => log[i].n <= maxStringSize
  /\ (Done /\ t.kind = "StringType" /\ Len(log) = 3 /\ AllOk) =>
       /\ log[1].at = FieldAddr(t.StructType, addr, "str")
       /\ log[2].at = FieldAddr(t.StructType, addr, "len")
       /\ log[3].at = log[1].v
       /\ log[3].n = Min(log[2].v, maxStringSize)
       /\ ret.err = NoErr
       /\ ret.val.kind = "String"
       /\ ret.val.Length = log[2].v
       /\ ret.val.String = [from |-> log[1].v, bytes |-> Min(log[2].v, maxStringSize)]

\* A string of declared length BigLen with a preview of maxStringSize bytes.
C5_Witness ==
  /\ Done /\ t.kind = "StringType" /\ ret.val.kind = "String"
  /\ ret.val.Length = BigLen /\ ret.val.String.bytes = maxStringSize

\* C6 as stated: an integer-like type whose byte size is not 1, 2, 4 or 8
\* fails with InvalidSize and returns no Value (memory being readable).
C6_InvalidSizeRejected ==
  (Done /\ t.kind \in IntegerLike /\ t.ByteSize \notin {1, 2, 4, 8} /\ AllOk) =>
    ret.val = NilVal /\ ret.err = "InvalidSize"

\* C7: a struct decode at addr returns one field view per declared field, in
\* order, with the field's name, type id and address addr + ByteOffset, and
\* reads no memory.
C7_StructViews ==
  (Done /\ t.kind = "StructType") =>
    /\ log = <<>>
    /\ ret.err = NoErr
    /\ ret.val.kind = "Struct"
    /\ DOMAIN ret.val.fields = 1..Len(t.Field)
    /\ \A i \in 1..Len(t.Field) :
         /\ ret.val.fields[i].Name = t.Field[i].Name
         /\ ret.val.fields[i].Var.TypeID = t.Field[i].Type.Offset
         /\ ret.val.fields[i].Var.Address = addr + t.Field[i].ByteOffset

\* A struct of two fields, the second at offset 8, decoded at an unmapped address.
C7_Witness ==
  /\ Done /\ t.kind = "StructType" /\ addr = Unmapped
  /\ Len(t.Field) = 2 /\ t.Field[2].ByteOffset = 8 /\ ret.err = NoErr

\* C8: a failed read is the last read of its call, and the call returns the
\* read's failure and no Value.
C8_ReadFailureStops ==
  \A i \in 1..Len(log) :
    ~log[i].ok => /\ i = Len(log)
                  /\ Done
                  /\ ret.val = NilVal
                  /\ ret.err = "ReadFailure"

\* A channel decode whose third read, of "qcount", fails.
C8_Witness ==
  /\ Done /\ t.kind = "ChanType" /\ Len(log) = 3
  /\ log[1].ok /\ log[2].ok /\ ~log[3].ok /\ log[3].field = "qcount"

\* Reads one call may issue, by the variant decoded (no bound is stated for Map).
ReadBound(kind) ==
  IF kind \in IntegerLike \cup {"FloatType", "ComplexType", "PtrType", "FuncType"} THEN 1
  ELSE IF kind \in {"SliceType", "StringType"} THEN 3
  ELSE IF kind = "ChanType" THEN 5
  ELSE 0

\* C9: the reads of a call are bounded by the variant reached after unwrapping
\* typedefs, whatever memory holds, and value is entered once more per typedef
\* unwrapped and never else.
C9_ReadsBounded ==
  /\ t.kind # "MapType" => Len(log) <= ReadBound(t.kind)
  /\ calls + TypedefDepth(t) = 1 + TypedefDepth(t0)

\* A non-nil channel behind a typedef, of length BigLen, decoded with five reads.
C9_Witness ==
  /\ Done /\ t.kind = "ChanType" /\ t0.kind = "TypedefType" /\ calls = 2
  /\ Len(log) = 5 /\ ret.err = NoErr /\ ret.val.Length = BigLen

\* The header fields a decode of type ty reads, in order.
HeaderOrder(ty) ==
  IF ty.kind = "SliceType" THEN <<"array", "len", "cap">>
  ELSE <<"chan", "buf", "qcount", "dataqsiz", "recvx">>

\* Where a decode of the running call's type reads its i-th header field.
HeaderAddr(i) ==
  IF t.kind = "SliceType" THEN FieldAddr(t.StructType, addr, HeaderOrder(t)[i])
  ELSE IF i = 1 THEN addr
  ELSE FieldAddr(hchan(t), log[1].v, HeaderOrder(t)[i])

\* C10: the header fields of a slice or channel are read one by one, in the
\* order array, len, cap (header pointer, buf, qcount, dataqsiz, recvx), each
\* read returning what memory held at its own instant, and a successful decode
\* returns exactly the values so read.
C10_FieldsReadOneByOne ==
  /\ Len(log) <= Len(HeaderOrder(t))
  /\ \A i \in 1..Len(log) :
       /\ log[i].field = HeaderOrder(t)[i]
       /\ log[i].at = HeaderAddr(i)
       /\ log[i].ok => log[i].v = hist[log[i].epoch][log[i].at]
       /\ i > 1 => log[i - 1].epoch <= log[i].epoch
  /\ (Done /\ ret.val.kind = "Slice") =>
       /\ ret.val.Array.Address = log[1].v
       /\ ret.val.Array.Length = log[2].v
       /\ ret.val.capacity = log[3].v
  /\ (Done /\ ret.val.kind = "Channel" /\ Len(log) > 1) =>
       /\ ret.val.Address = log[1].v
       /\ ret.val.Buffer = log[2].v
       /\ ret.val.Length = log[3].v
       /\ ret.val.Capacity = log[4].v
       /\ ret.val.BufferStart = log[5].v

\* The view returned was in memory at no instant of the call.
Torn == \A k \in 1..Len(hist) : \E i \in 1..Len(log) : hist[k][log[i].at] # log[i].v

\* A torn Slice.
C10_Witness == Done /\ ret.val.kind = "Slice" /\ Torn

\* A torn Channel.
C10_TornChannel == Done /\ ret.val.kind = "Channel" /\ Len(log) = 5 /\ Torn

====
